---- MODULE Spec2Model ----
(***************************************************************************)
(* A model of the sharded, append-only, indexed map of db/map.go           *)
(* (ConcurrentMap): round-robin routing of inserts, the per-shard offset   *)
(* index with shared offset descriptors, the capacity map of the           *)
(* non-unique keys, logical deletion and the scans over the ordinals.      *)
(*                                                                         *)
(* Index keys are the strings the code composes (strconv.Itoa and "+"),    *)
(* offset descriptors live in a heap so that several index entries can     *)
(* point to one descriptor, and a shard file is a sequence of bytes.       *)
(***************************************************************************)
EXTENDS Integers, Sequences, FiniteSets, TLC

\* var SHARD_COUNT = 32.  The model runs with a smaller default number of
\* shards; every loop over the shards and every index into m.Shared goes
\* through this definition, so that the number can be raised.
SHARD_COUNT == 3

\* The literal of "if m.counter >= 32" in GetNextShard.  The source writes the
\* default value of SHARD_COUNT as a literal here, so the model scales the
\* literal together with the default and keeps the two equal; the number of
\* shards the map was built with (shardCount) is a separate quantity.
CounterLimit == SHARD_COUNT

\* Bounds of the model.
MaxSets == 2        \* number of Set calls in a run
MaxLimit == 2       \* largest limit passed to the *ByKey operations

VARIABLES
    shardCount,     \* the value of SHARD_COUNT when the map was built = len(m.Shared)
    iter,           \* the Iter / IterBuffered call: its goroutines and channels
    mapIndex,       \* the characters of the file map.index, <<>> while there is none
    counter,        \* m.counter
    counterMx,      \* m.counterMx: "free" or the thread that holds it
    Items,          \* Items[n]: shard n's offset index, key string -> descriptor address
    capacity,       \* capacity[n]: shard n's capacity map, fingerprint -> int
    file,           \* file[n]: the bytes of shard n's file
    handle,         \* handle[n]: shard.file is an "open" or a "closed" handle
    mu,             \* mu[n]: shard n's RWMutex, "free" or its holder
    heap,           \* the ShardOffset objects, address -> [Start, Length, Deleted]
    nextId,         \* number of the next Set call (names its id and its descriptor)
    panicked,       \* TRUE once a goroutine has panicked (index out of range)
    last,           \* the last completed call: its arguments and what it returned
    written,        \* ghost: for every successful Set, what it returned and appended
    fc,             \* the FindByKey call in progress (its locals), or idle
    tpc,            \* per thread: position inside Set / GetNextShard
    tloc,           \* per thread: the locals of its Set call (id, shard)
    route           \* ghost: counter value at the last SetCounterIndex / construction
                    \*        and the shards handed out since, in mutex order

engineVars == <<shardCount, iter, mapIndex, counter, counterMx>>
shardVars  == <<Items, capacity, file, handle, heap>>
findVars   == <<fc, mu>>
threadVars == <<tpc, tloc>>
vars == <<shardCount, iter, mapIndex, counter, counterMx, Items, capacity, file, handle, mu, heap,
          nextId, panicked, last, written, fc, tpc, tloc, route>>

Shards == 0 .. (shardCount - 1)
Threads == {"t1", "t2"}

EmptyMap == [k \in {} |-> 0]

Min(a, b) == IF a < b THEN a ELSE b

-----------------------------------------------------------------------------
(* Inputs *)

\* FullDataIndex values the host passes to Set
UniqueEmail == [Field |-> "email", Data |-> "a@x", Unique |-> TRUE]
TagRed      == [Field |-> "tag", Data |-> "red", Unique |-> FALSE]

\* payloads: two encodable ones of different length, one gob cannot encode
Unencodable == <<-1>>
Payloads == { <<1>>, <<2, 3>> }

\* the Set calls of a run: <<indexData, value, outcome of the file operations,
\* bytes written by a failing Write>>
SetInputs ==
    { <<<<>>, <<1>>, "ok", 0>>,
      <<<<UniqueEmail>>, <<2, 3>>, "ok", 0>>,
      <<<<TagRed>>, <<1>>, "ok", 0>>,
      <<<<TagRed, UniqueEmail>>, <<1>>, "ok", 0>>,
      <<<<UniqueEmail, TagRed>>, <<2, 3>>, "ok", 0>>,
      <<<<TagRed, TagRed>>, <<2, 3>>, "ok", 0>>,
      <<<<TagRed>>, <<1>>, "seek", 0>>,
      <<<<UniqueEmail>>, <<2, 3>>, "write", 1>>,
      <<<<>>, Unencodable, "ok", 0>> }

\* the Set calls of the runs that exercise the non-unique keys
KeyInputs ==
    { <<<<TagRed>>, <<1>>, "ok", 0>>,
      <<<<TagRed, TagRed>>, <<2, 3>>, "ok", 0>> }

\* values passed to SetCounterIndex
CounterInputs == { 0, SHARD_COUNT }

Limits == 0 .. MaxLimit

-----------------------------------------------------------------------------
(* Keys, codec, capacity map *)

\* ix.Field + ":" + ix.Data
FullKey(ix) == ix.Field \o ":" \o ix.Data

\* strconv.Itoa(index) + ":" + fullKey
OrdKey(index, fullKey) == ToString(index) \o ":" \o fullKey

\* an id generator that hands out the same string to every call
XidStringFixed(n) == "x" \o ToString(0 * n)

\* xid.New().String(): a fresh string per call
XidString(n) == "x" \o ToString(n)

\* "id:" + idStr
IdKey(n) == "id:" \o XidString(n)

\* EncodeGob(Element{idStr, value}): a block that carries the id and the payload
EncodeGob(n, value) == <<100 + n>> \o value

\* shard.GetCapacityKey(kv): the zero value when the fingerprint is absent
GetCapacityKey(cap, kv) == IF kv \in DOMAIN cap THEN cap[kv] ELSE 0

\* shard.SetCapacityKey(kv, v)
SetCapacityKey(cap, kv, v) == (kv :> v) @@ cap

\* shard.Items[key] = &offset
PutItem(items, key, a) == (key :> a) @@ items

\* m.ReadAtOffset: Length bytes at Start; an I/O error (also a short read at
\* end of file) leaves the zeroed buffer
ReadAtOffset(f, off, ioOk) ==
    IF ioOk /\ off.Start + off.Length <= Len(f)
    THEN [data |-> SubSeq(f, off.Start + 1, off.Start + off.Length), err |-> "nil"]
    ELSE [data |-> [j \in 1 .. off.Length |-> 0], err |-> "io"]

-----------------------------------------------------------------------------
(* GetNextShard *)

\* m.counter++ (a uint64 that GetNextShard and SetCounterIndex keep far below 2^64)
Incr(c) == c + 1

\* if m.counter >= 32 { m.counter = 0 }
Wrap(c) == IF c >= CounterLimit THEN 0 ELSE c

NextCounter(c) == Wrap(Incr(c))

-----------------------------------------------------------------------------
(* Set: the part under the shard lock *)

\* the "for { lastAvailable = ...; if exists { index++ } else { break } }" loop
RECURSIVE FreeOrdinal(_, _, _)
FreeOrdinal(items, fullKey, index) ==
    IF OrdKey(index, fullKey) \in DOMAIN items
    THEN FreeOrdinal(items, fullKey, index + 1)
    ELSE index

\* InsertIndexes with the assignment of a unique key made before the test for
\* a duplicate
RECURSIVE InsertIndexesAssignFirst(_, _, _, _, _)
InsertIndexesAssignFirst(indexData, j, a, sid, st) ==
    IF j > Len(indexData) THEN st
    ELSE LET ix == indexData[j]
             fullKey == FullKey(ix)
         IN  IF ix.Unique
             THEN IF fullKey \in DOMAIN st.Items
                  THEN [st EXCEPT !.Items = PutItem(@, fullKey, a),
                                  !.err = "duplicate"]
                  ELSE InsertIndexesAssignFirst(indexData, j + 1, a, sid,
                         [st EXCEPT !.Items = PutItem(@, fullKey, a),
                                    !.destMap = (fullKey :> sid) @@ @])
             ELSE LET index == FreeOrdinal(st.Items, fullKey,
                                           GetCapacityKey(st.capacity, fullKey))
                      lastAvailable == OrdKey(index, fullKey)
                  IN  InsertIndexesAssignFirst(indexData, j + 1, a, sid,
                         [st EXCEPT !.Items = PutItem(@, lastAvailable, a),
                                    !.capacity = SetCapacityKey(@, fullKey, index),
                                    !.destMap = (lastAvailable :> sid) @@ @])

\* the loop over indexData; st carries Items, capacity, destMap and the error
RECURSIVE InsertIndexes(_, _, _, _, _)
InsertIndexes(indexData, j, a, sid, st) ==
    IF j > Len(indexData) THEN st
    ELSE LET ix == indexData[j]
             fullKey == FullKey(ix)
         IN  IF ix.Unique
             THEN IF fullKey \in DOMAIN st.Items
                  THEN [st EXCEPT !.err = "duplicate"]
                  ELSE InsertIndexes(indexData, j + 1, a, sid,
                         [st EXCEPT !.Items = PutItem(@, fullKey, a),
                                    !.destMap = (fullKey :> sid) @@ @])
             ELSE LET index == FreeOrdinal(st.Items, fullKey,
                                           GetCapacityKey(st.capacity, fullKey))
                      lastAvailable == OrdKey(index, fullKey)
                  IN  InsertIndexes(indexData, j + 1, a, sid,
                         [st EXCEPT !.Items = PutItem(@, lastAvailable, a),
                                    !.capacity = SetCapacityKey(@, fullKey, index),
                                    !.destMap = (lastAvailable :> sid) @@ @])

\* a descriptor that ignores the position Seek returned
NewOffsetAtZero(ret, n) == [Start |-> 0, Length |-> n, Deleted |-> FALSE]

\* offset := ShardOffset{ret, n, false}
NewOffset(ret, n) == [Start |-> ret, Length |-> n, Deleted |-> FALSE]

\* Set from shard.Lock() on, for the call number n on shard s.
\* io: "ok", "seek" (Seek fails) or "write" (Write fails after wrote bytes).
SetOnShard(s, n, indexData, value, io, wrote) ==
    LET encodedData == EncodeGob(n, value)
        ret == Len(file[s])
        st0 == [Items |-> Items[s], capacity |-> capacity[s],
                destMap |-> EmptyMap, err |-> "nil"]
        st1 == InsertIndexes(indexData, 1, n, s, st0)
        st2 == IF st1.err = "nil"
               THEN [st1 EXCEPT !.Items = PutItem(@, IdKey(n), n),
                                !.destMap = (IdKey(n) :> s) @@ @]
               ELSE st1
    IN  IF io = "seek"
        THEN [Items |-> Items[s], capacity |-> capacity[s], file |-> file[s],
              used |-> FALSE, destMap |-> EmptyMap, err |-> "io"]
        ELSE IF io = "write"
        THEN [Items |-> Items[s], capacity |-> capacity[s],
              file |-> file[s] \o SubSeq(encodedData, 1, wrote),
              used |-> FALSE, destMap |-> EmptyMap, err |-> "io"]
        ELSE [Items |-> st2.Items, capacity |-> st2.capacity,
              file |-> file[s] \o encodedData,
              used |-> (st2.Items # Items[s]),
              destMap |-> IF st2.err = "nil" THEN st2.destMap ELSE EmptyMap,
              err |-> st2.err]

\* the effect of SetOnShard on the state
ApplySet(s, n, indexData, value, io, wrote) ==
    LET r == SetOnShard(s, n, indexData, value, io, wrote)
    IN  /\ Items' = [Items EXCEPT ![s] = r.Items]
        /\ capacity' = [capacity EXCEPT ![s] = r.capacity]
        /\ file' = [file EXCEPT ![s] = r.file]
        /\ UNCHANGED handle
        /\ heap' = IF r.used
                   THEN (n :> NewOffset(Len(file[s]), Len(EncodeGob(n, value)))) @@ heap
                   ELSE heap
        /\ last' = [op |-> "Set", id |-> n, shard |-> s, indexData |-> indexData,
                    destMap |-> r.destMap, err |-> r.err]
        /\ written' = IF r.err = "nil"
                      THEN (n :> [shard |-> s, keys |-> DOMAIN r.destMap,
                                  bytes |-> EncodeGob(n, value)]) @@ written
                      ELSE written

\* Set, run without interleaving
Set(indexData, value, io, wrote) ==
    /\ ~panicked
    /\ fc.pc = "idle"
    /\ nextId <= MaxSets
    /\ nextId' = nextId + 1
    /\ IF value = Unencodable
       THEN /\ last' = [op |-> "Set", id |-> nextId, shard |-> -1,
                        indexData |-> indexData, destMap |-> EmptyMap,
                        err |-> "encode"]
            /\ UNCHANGED <<engineVars, shardVars, written, findVars, threadVars,
                           panicked, route>>
       ELSE LET c == NextCounter(counter)
            IN  /\ counter' = c
                /\ UNCHANGED <<shardCount, iter, mapIndex, counterMx, findVars, threadVars>>
                /\ IF c \in Shards
                   THEN /\ ApplySet(c, nextId, indexData, value, io, wrote)
                        /\ UNCHANGED <<panicked, route>>
                   ELSE /\ panicked' = TRUE
                        /\ last' = [op |-> "Set", id |-> nextId, shard |-> c,
                                    indexData |-> indexData, destMap |-> EmptyMap,
                                    err |-> "panic"]
                        /\ UNCHANGED <<shardVars, written, route>>

-----------------------------------------------------------------------------
(* SetCounterIndex *)

SetCounterIndex(value) ==
    /\ ~panicked
    /\ fc.pc = "idle"
    /\ counterMx = "free"
    /\ IF value >= shardCount \/ value < 0
       THEN /\ last' = [op |-> "SetCounterIndex", value |-> value,
                        err |-> "invalid value", before |-> counter, after |-> counter]
            /\ UNCHANGED <<counter, route>>
       ELSE /\ counter' = value
            /\ route' = [c0 |-> value, given |-> <<>>]
            /\ last' = [op |-> "SetCounterIndex", value |-> value,
                        err |-> "nil", before |-> counter, after |-> value]
    /\ UNCHANGED <<shardCount, iter, mapIndex, counterMx, shardVars, nextId, panicked, written,
                   findVars, threadVars>>

-----------------------------------------------------------------------------
(* Point operations on a shard the caller names *)

\* the descriptors currently marked deleted
DeletedSet == {a \in DOMAIN heap : heap[a].Deleted}

\* FindByUniqueKey(shard, key, value); FindById(shard, id) is the call with key "id"
FindByUniqueKey(s, key, value, ioOk) ==
    /\ ~panicked
    /\ fc.pc = "idle"
    /\ mu[s] = "free"
    /\ LET k == key \o ":" \o value
       IN  IF k \in DOMAIN Items[s]
           THEN LET r == ReadAtOffset(file[s], heap[Items[s][k]], ioOk)
                IN  last' = [op |-> "FindByUniqueKey", shard |-> s, key |-> k,
                             ioOk |-> ioOk, data |-> r.data, err |-> r.err]
           ELSE last' = [op |-> "FindByUniqueKey", shard |-> s, key |-> k,
                         ioOk |-> ioOk, data |-> <<>>, err |-> "not found"]
    /\ UNCHANGED <<engineVars, shardVars, nextId, panicked, written, findVars,
                   threadVars, route>>

\* a DeleteByUniqueKey that marks every descriptor of the shard's index
DeleteByUniqueKeyWholeShard(s, key, value) ==
    /\ ~panicked
    /\ fc.pc = "idle"
    /\ mu[s] = "free"
    /\ LET k == key \o ":" \o value
       IN  IF k \in DOMAIN Items[s]
           THEN /\ heap' = [a \in DOMAIN heap |->
                               IF \E q \in DOMAIN Items[s] : Items[s][q] = a
                               THEN [heap[a] EXCEPT !.Deleted = TRUE]
                               ELSE heap[a]]
                /\ last' = [op |-> "DeleteByUniqueKey", shard |-> s, key |-> k,
                            err |-> "nil"]
           ELSE /\ last' = [op |-> "DeleteByUniqueKey", shard |-> s, key |-> k,
                            err |-> "not found"]
                /\ UNCHANGED heap
    /\ UNCHANGED <<engineVars, Items, capacity, file, handle, nextId, panicked, written,
                   findVars, threadVars, route>>

\* DeleteByUniqueKey(shard, key, value); DeleteById(shard, id) is the call with key "id"
DeleteByUniqueKey(s, key, value) ==
    /\ ~panicked
    /\ fc.pc = "idle"
    /\ mu[s] = "free"
    /\ LET k == key \o ":" \o value
       IN  IF k \in DOMAIN Items[s]
           THEN /\ heap' = [heap EXCEPT ![Items[s][k]].Deleted = TRUE]
                /\ last' = [op |-> "DeleteByUniqueKey", shard |-> s, key |-> k,
                            err |-> "nil"]
           ELSE /\ last' = [op |-> "DeleteByUniqueKey", shard |-> s, key |-> k,
                            err |-> "not found"]
                /\ UNCHANGED heap
    /\ UNCHANGED <<engineVars, Items, capacity, file, handle, nextId, panicked, written,
                   findVars, threadVars, route>>

\* a RestoreByUniqueKey that reports success and leaves the flag as it is
RestoreByUniqueKeyKeepsFlag(s, key, value) ==
    /\ ~panicked
    /\ fc.pc = "idle"
    /\ mu[s] = "free"
    /\ LET k == key \o ":" \o value
           undoes == /\ last.op = "DeleteByUniqueKey" /\ last.err = "nil"
                     /\ last.shard = s /\ last.key = k
       IN  IF k \in DOMAIN Items[s]
           THEN last' = [op |-> "RestoreByUniqueKey", shard |-> s, key |-> k,
                         err |-> "nil", undoes |-> undoes]
           ELSE last' = [op |-> "RestoreByUniqueKey", shard |-> s, key |-> k,
                         err |-> "evicted", undoes |-> undoes]
    /\ UNCHANGED <<engineVars, shardVars, nextId, panicked, written,
                   findVars, threadVars, route>>

\* RestoreByUniqueKey(shard, key, value); last.undoes tells whether the call
\* before it was the successful DeleteByUniqueKey of the same key
RestoreByUniqueKey(s, key, value) ==
    /\ ~panicked
    /\ fc.pc = "idle"
    /\ mu[s] = "free"
    /\ LET k == key \o ":" \o value
           undoes == /\ last.op = "DeleteByUniqueKey" /\ last.err = "nil"
                     /\ last.shard = s /\ last.key = k
       IN  IF k \in DOMAIN Items[s]
           THEN /\ heap' = [heap EXCEPT ![Items[s][k]].Deleted = FALSE]
                /\ last' = [op |-> "RestoreByUniqueKey", shard |-> s, key |-> k,
                            err |-> "nil", undoes |-> undoes]
           ELSE /\ last' = [op |-> "RestoreByUniqueKey", shard |-> s, key |-> k,
                            err |-> "evicted", undoes |-> undoes]
                /\ UNCHANGED heap
    /\ UNCHANGED <<engineVars, Items, capacity, file, handle, nextId, panicked, written,
                   findVars, threadVars, route>>

-----------------------------------------------------------------------------
(* DeleteByKey *)

\* the loop "for i := length - 1; i >= 0; i--" of DeleteByKey on shard n;
\* st carries the heap, deletedDests, counter and whether the call returned
RECURSIVE DeleteScan(_, _, _, _, _)
DeleteScan(n, kv, i, limit, st) ==
    IF i < 0 THEN st
    ELSE LET tempKey == OrdKey(i, kv)
         IN  IF tempKey \in DOMAIN Items[n]
             THEN IF st.heap[Items[n][tempKey]].Deleted
                  THEN DeleteScan(n, kv, i - 1, limit, st)             \* continue
                  ELSE LET st1 == [st EXCEPT
                                     !.heap[Items[n][tempKey]].Deleted = TRUE,
                                     !.deletedDests = Append(@, tempKey),
                                     !.counter = @ + 1]
                       IN  IF st1.counter = limit
                           THEN [st1 EXCEPT !.returned = TRUE]
                           ELSE DeleteScan(n, kv, (i + 1) - 1, limit, st1)  \* i++ ; i--
             ELSE st                                                   \* break

\* the loop over the shards of DeleteByKey
RECURSIVE DeleteShards(_, _, _, _)
DeleteShards(n, kv, limit, st) ==
    IF n >= shardCount THEN st
    ELSE LET length == GetCapacityKey(capacity[n], kv)
             st1 == DeleteScan(n, kv, length - 1, limit, st)
         IN  IF st1.returned THEN st1
             ELSE DeleteShards(n + 1, kv, limit, st1)

DeleteByKey(key, value, limit) ==
    /\ ~panicked
    /\ fc.pc = "idle"
    /\ \A n \in Shards : mu[n] = "free"
    /\ LET kv == key \o ":" \o value
           r == DeleteShards(0, kv, limit,
                             [heap |-> heap, deletedDests |-> <<>>, counter |-> 0,
                              returned |-> FALSE])
       IN  /\ heap' = r.heap
           /\ last' = [op |-> "DeleteByKey", kv |-> kv, limit |-> limit,
                       deletedDests |-> r.deletedDests, pre |-> DeletedSet]
    /\ UNCHANGED <<engineVars, Items, capacity, file, handle, nextId, panicked, written,
                   findVars, threadVars, route>>

-----------------------------------------------------------------------------
(* RestoreByKey *)

\* RestoreScan with the test of DeleteByKey left in ("if item.Deleted { continue }")
RECURSIVE RestoreScanSkipsDeleted(_, _, _, _, _)
RestoreScanSkipsDeleted(n, kv, i, limit, st) ==
    IF i < 0 THEN st
    ELSE LET tempKey == OrdKey(i, kv)
         IN  IF tempKey \in DOMAIN Items[n]
             THEN IF st.heap[Items[n][tempKey]].Deleted
                  THEN RestoreScanSkipsDeleted(n, kv, i - 1, limit, st)
                  ELSE LET st1 == [st EXCEPT !.counter = @ + 1]
                       IN  IF st1.counter = limit
                           THEN [st1 EXCEPT !.returned = TRUE]
                           ELSE RestoreScanSkipsDeleted(n, kv, i - 1, limit, st1)
             ELSE st

\* the loop "for i := length - 1; i >= 0; i--" of RestoreByKey on shard n
RECURSIVE RestoreScan(_, _, _, _, _)
RestoreScan(n, kv, i, limit, st) ==
    IF i < 0 THEN st
    ELSE LET tempKey == OrdKey(i, kv)
         IN  IF tempKey \in DOMAIN Items[n]
             THEN IF ~st.heap[Items[n][tempKey]].Deleted
                  THEN RestoreScan(n, kv, i - 1, limit, st)            \* continue
                  ELSE LET st1 == [st EXCEPT
                                     !.heap[Items[n][tempKey]].Deleted = FALSE,
                                     !.counter = @ + 1]
                       IN  IF st1.counter = limit
                           THEN [st1 EXCEPT !.returned = TRUE]
                           ELSE RestoreScan(n, kv, (i + 1) - 1, limit, st1) \* i++ ; i--
             ELSE st                                                   \* break

\* the loop over the shards of RestoreByKey, with its SetCapacityKey
RECURSIVE RestoreShards(_, _, _, _)
RestoreShards(n, kv, limit, st) ==
    IF n >= shardCount THEN st
    ELSE LET length == GetCapacityKey(st.capacity[n], kv)
             st1 == RestoreScan(n, kv, length - 1, limit, st)
         IN  IF st1.returned THEN st1
             ELSE RestoreShards(n + 1, kv, limit,
                    [st1 EXCEPT !.capacity[n] =
                                   SetCapacityKey(@, kv, length + st1.counter)])

RestoreByKey(key, value, limit) ==
    /\ ~panicked
    /\ fc.pc = "idle"
    /\ \A n \in Shards : mu[n] = "free"
    /\ LET kv == key \o ":" \o value
           r == RestoreShards(0, kv, limit,
                              [heap |-> heap, capacity |-> capacity, counter |-> 0,
                               returned |-> FALSE])
       IN  /\ heap' = r.heap
           /\ capacity' = r.capacity
           /\ last' = [op |-> "RestoreByKey", kv |-> kv, limit |-> limit,
                       n |-> IF r.returned THEN limit ELSE r.counter,
                       prevOp |-> last.op]
    /\ UNCHANGED <<engineVars, Items, file, handle, nextId, panicked, written,
                   findVars, threadVars, route>>

-----------------------------------------------------------------------------
(* FindByKey, one loop iteration per step *)

\* entry of FindByKey: results := make(...), kv := ":" + key + ":" + value, n := 0
FindByKeyCall(key, value, limit) ==
    /\ ~panicked
    /\ fc.pc = "idle"
    /\ fc' = [pc |-> "shard", kv |-> ":" \o key \o ":" \o value, limit |-> limit,
              n |-> 0, i |-> 0, results |-> <<>>, tick |-> 0]
    /\ UNCHANGED <<engineVars, shardVars, mu, nextId, panicked, last, written,
                   threadVars, route>>

\* head of "for n := 0; n < SHARD_COUNT; n++": shard.Lock() and i := 0, or the
\* final "return results, nil"
FindNextShard ==
    /\ fc.pc = "shard"
    /\ IF fc.n < shardCount
       THEN /\ mu[fc.n] = "free"
            /\ mu' = [mu EXCEPT ![fc.n] = "FindByKey"]
            /\ fc' = [fc EXCEPT !.pc = "scan", !.i = 0]
            /\ UNCHANGED last
       ELSE /\ last' = [op |-> "FindByKey", kv |-> fc.kv, limit |-> fc.limit,
                        results |-> fc.results, err |-> "nil"]
            /\ fc' = [pc |-> "idle"]
            /\ UNCHANGED mu
    /\ UNCHANGED <<engineVars, shardVars, nextId, panicked, written, threadVars, route>>

\* one iteration of the inner "for { ... }" of FindByKey; tick is the parity
\* of the number of iterations made
FindScanStep(ioOk) ==
    /\ fc.pc = "scan"
    /\ LET n == fc.n
           k == ToString(fc.i) \o fc.kv
       IN  IF k \in DOMAIN Items[n]
           THEN LET item == heap[Items[n][k]]
                    r == ReadAtOffset(file[n], item, ioOk)
                    results == Append(fc.results, r.data)
                IN  IF item.Deleted
                    THEN \* continue: the next iteration starts with the same i
                         /\ fc' = [fc EXCEPT !.tick = 1 - @]
                         /\ UNCHANGED <<mu, last>>
                    ELSE IF r.err # "nil"
                    THEN \* shard.Unlock(); return nil, err
                         /\ mu' = [mu EXCEPT ![n] = "free"]
                         /\ last' = [op |-> "FindByKey", kv |-> fc.kv,
                                     limit |-> fc.limit, results |-> <<>>,
                                     err |-> r.err]
                         /\ fc' = [pc |-> "idle"]
                    ELSE IF Len(results) = fc.limit
                    THEN \* shard.Unlock(); return results, nil
                         /\ mu' = [mu EXCEPT ![n] = "free"]
                         /\ last' = [op |-> "FindByKey", kv |-> fc.kv,
                                     limit |-> fc.limit, results |-> results,
                                     err |-> "nil"]
                         /\ fc' = [pc |-> "idle"]
                    ELSE \* i++
                         /\ fc' = [fc EXCEPT !.results = results, !.i = @ + 1,
                                             !.tick = 1 - @]
                         /\ UNCHANGED <<mu, last>>
           ELSE \* break; shard.Unlock(); n++
                /\ mu' = [mu EXCEPT ![n] = "free"]
                /\ fc' = [fc EXCEPT !.pc = "shard", !.n = @ + 1, !.tick = 1 - @]
                /\ UNCHANGED last
    /\ UNCHANGED <<engineVars, shardVars, nextId, panicked, written, threadVars, route>>

-----------------------------------------------------------------------------
(* Set on concurrent threads, GetNextShard one statement per step *)

\* entry of Set: the id is made and the payload encoded
SetBegin(t) ==
    /\ ~panicked
    /\ tpc[t] = "idle"
    /\ nextId <= MaxSets
    /\ nextId' = nextId + 1
    /\ tloc' = [tloc EXCEPT ![t] = [id |-> nextId, shard |-> -1]]
    /\ tpc' = [tpc EXCEPT ![t] = "lock"]
    /\ UNCHANGED <<engineVars, shardVars, findVars, panicked, last, written, route>>

\* m.counterMx.Lock()
GetNextShardLock(t) ==
    /\ ~panicked
    /\ tpc[t] = "lock"
    /\ counterMx = "free"
    /\ counterMx' = t
    /\ tpc' = [tpc EXCEPT ![t] = "inc"]
    /\ UNCHANGED <<shardCount, iter, mapIndex, counter, shardVars, findVars, nextId, panicked,
                   last, written, tloc, route>>

\* m.counter++
GetNextShardInc(t) ==
    /\ ~panicked
    /\ tpc[t] = "inc"
    /\ counter' = Incr(counter)
    /\ tpc' = [tpc EXCEPT ![t] = "wrap"]
    /\ UNCHANGED <<shardCount, iter, mapIndex, counterMx, shardVars, findVars, nextId, panicked,
                   last, written, tloc, route>>

\* if m.counter >= 32 { m.counter = 0 }
GetNextShardWrap(t) ==
    /\ ~panicked
    /\ tpc[t] = "wrap"
    /\ counter' = Wrap(counter)
    /\ tpc' = [tpc EXCEPT ![t] = "index"]
    /\ UNCHANGED <<shardCount, iter, mapIndex, counterMx, shardVars, findVars, nextId, panicked,
                   last, written, tloc, route>>

\* return m.Shared[m.counter], and the deferred m.counterMx.Unlock(); an index
\* outside the slice panics
GetNextShardReturn(t) ==
    /\ ~panicked
    /\ tpc[t] = "index"
    /\ counterMx' = "free"
    /\ IF counter \in Shards
       THEN /\ tloc' = [tloc EXCEPT ![t].shard = counter]
            /\ route' = [route EXCEPT !.given = Append(@, counter)]
            /\ tpc' = [tpc EXCEPT ![t] = "body"]
            /\ UNCHANGED panicked
       ELSE /\ panicked' = TRUE
            /\ tpc' = [tpc EXCEPT ![t] = "panic"]
            /\ UNCHANGED <<tloc, route>>
    /\ UNCHANGED <<shardCount, iter, mapIndex, counter, shardVars, findVars, nextId, last, written>>

\* shard.Lock() ... return destMap, nil with the deferred shard.Unlock()
SetBody(t, indexData, value, io, wrote) ==
    /\ ~panicked
    /\ tpc[t] = "body"
    /\ mu[tloc[t].shard] = "free"
    /\ ApplySet(tloc[t].shard, tloc[t].id, indexData, value, io, wrote)
    /\ tpc' = [tpc EXCEPT ![t] = "idle"]
    /\ UNCHANGED <<engineVars, findVars, nextId, panicked, tloc, route>>

-----------------------------------------------------------------------------
(* Count and IsEmpty *)

\* a length that leaves out the entries of tombstoned descriptors
ShardLenLive(n) == Cardinality({k \in DOMAIN Items[n] : ~heap[Items[n][k]].Deleted})

\* len(shard.Items)
ShardLen(n) == Cardinality(DOMAIN Items[n])

\* a count that leaves out the entries of tombstoned descriptors
RECURSIVE CountLiveFrom(_)
CountLiveFrom(i) ==
    IF i >= shardCount THEN 0
    ELSE Cardinality({k \in DOMAIN Items[i] : ~heap[Items[i][k]].Deleted})
         + CountLiveFrom(i + 1)

\* the loop "for i := 0; i < SHARD_COUNT; i++ { count += len(shard.Items) }"
\* from shard i on
RECURSIVE CountFrom(_)
CountFrom(i) ==
    IF i >= shardCount THEN 0
    ELSE ShardLen(i) + CountFrom(i + 1)

\* Count(), run without interleaving
Count ==
    /\ ~panicked
    /\ fc.pc = "idle"
    /\ \A n \in Shards : mu[n] = "free"
    /\ last' = [op |-> "Count", count |-> CountFrom(0)]
    /\ UNCHANGED <<engineVars, shardVars, nextId, panicked, written, findVars,
                   threadVars, route>>

\* IsEmpty(): return m.Count() == 0
IsEmpty ==
    /\ ~panicked
    /\ fc.pc = "idle"
    /\ \A n \in Shards : mu[n] = "free"
    /\ last' = [op |-> "IsEmpty", result |-> (CountFrom(0) = 0)]
    /\ UNCHANGED <<engineVars, shardVars, nextId, panicked, written, findVars,
                   threadVars, route>>

\* Count() on thread t, one shard per step.  Entry: count := 0, i := 0;
\* prev is what the thread's previous Count returned (-1: none yet)
CountBegin(t) ==
    /\ ~panicked
    /\ tpc[t] = "idle"
    /\ tpc' = [tpc EXCEPT ![t] = "count"]
    /\ tloc' = [tloc EXCEPT ![t] =
                  [i |-> 0, count |-> 0,
                   prev |-> IF "prev" \in DOMAIN tloc[t] THEN tloc[t].prev ELSE -1]]
    /\ UNCHANGED <<engineVars, shardVars, findVars, nextId, panicked, last,
                   written, route>>

\* shard.RLock(); count += len(shard.Items); shard.RUnlock(); i++
CountShard(t) ==
    /\ ~panicked
    /\ tpc[t] = "count"
    /\ tloc[t].i < shardCount
    /\ mu[tloc[t].i] = "free"
    /\ tloc' = [tloc EXCEPT ![t].count = @ + ShardLen(tloc[t].i), ![t].i = @ + 1]
    /\ UNCHANGED <<engineVars, shardVars, findVars, nextId, panicked, last,
                   written, tpc, route>>

\* return count
CountReturn(t) ==
    /\ ~panicked
    /\ tpc[t] = "count"
    /\ tloc[t].i >= shardCount
    /\ last' = [op |-> "Count", count |-> tloc[t].count, by |-> t,
                prev |-> tloc[t].prev]
    /\ tloc' = [tloc EXCEPT ![t] = [i |-> 0, count |-> 0, prev |-> tloc[t].count]]
    /\ tpc' = [tpc EXCEPT ![t] = "idle"]
    /\ UNCHANGED <<engineVars, shardVars, findVars, nextId, panicked, written, route>>

-----------------------------------------------------------------------------
(* Set on a thread with the file operations as steps, and Flush *)

\* a Seek that returns the start of the file
SeekStart(f) == 0

\* shard.file.Seek(0, 2): the position of the end of the file
SeekEnd(f) == Len(f)

\* shard.file.Write(bytes) with the file position at pos
WriteAt(f, pos, bytes) ==
    SubSeq(f, 1, pos) \o bytes \o SubSeq(f, pos + Len(bytes) + 1, Len(f))

\* entry of Set up to "shard := m.GetNextShard()", which runs under counterMx
SetEnter(t, value) ==
    /\ ~panicked
    /\ tpc[t] = "idle"
    /\ nextId <= MaxSets
    /\ counterMx = "free"
    /\ NextCounter(counter) \in Shards
    /\ counter' = NextCounter(counter)
    /\ nextId' = nextId + 1
    /\ tloc' = [tloc EXCEPT ![t] = [id |-> nextId, shard |-> NextCounter(counter),
                                    data |-> EncodeGob(nextId, value),
                                    ret |-> 0, n |-> 0]]
    /\ tpc' = [tpc EXCEPT ![t] = "shardLock"]
    /\ UNCHANGED <<shardCount, iter, mapIndex, counterMx, shardVars, findVars, panicked, last,
                   written, route>>

\* shard.Lock()
SetLockShard(t) ==
    /\ ~panicked
    /\ tpc[t] = "shardLock"
    /\ mu[tloc[t].shard] = "free"
    /\ mu' = [mu EXCEPT ![tloc[t].shard] = t]
    /\ tpc' = [tpc EXCEPT ![t] = "seek"]
    /\ UNCHANGED <<engineVars, shardVars, fc, nextId, panicked, last, written,
                   tloc, route>>

\* ret, err := shard.file.Seek(0, 2); an error returns through the deferred
\* shard.Unlock().  A closed handle gives an error.
SetSeek(t, ok) ==
    /\ ~panicked
    /\ tpc[t] = "seek"
    /\ LET s == tloc[t].shard
       IN  IF ok /\ handle[s] = "open"
           THEN /\ tloc' = [tloc EXCEPT ![t].ret = SeekEnd(file[s])]
                /\ tpc' = [tpc EXCEPT ![t] = "write"]
                /\ UNCHANGED <<mu, last>>
           ELSE /\ mu' = [mu EXCEPT ![s] = "free"]
                /\ tpc' = [tpc EXCEPT ![t] = "idle"]
                /\ last' = [op |-> "Set", id |-> tloc[t].id, shard |-> s,
                            indexData |-> <<>>, destMap |-> EmptyMap, err |-> "io"]
                /\ UNCHANGED tloc
    /\ UNCHANGED <<engineVars, shardVars, fc, nextId, panicked, written, route>>

\* n, err = shard.file.Write(encodedData): all bytes, or an error after the
\* first byte
SetWrite(t, full) ==
    /\ ~panicked
    /\ tpc[t] = "write"
    /\ LET s == tloc[t].shard
           data == tloc[t].data
           wrote == IF full THEN Len(data) ELSE 1
       IN  /\ file' = [file EXCEPT ![s] = WriteAt(@, tloc[t].ret, SubSeq(data, 1, wrote))]
           /\ IF wrote = Len(data)
              THEN /\ tloc' = [tloc EXCEPT ![t].n = wrote]
                   /\ tpc' = [tpc EXCEPT ![t] = "index"]
                   /\ UNCHANGED <<mu, last>>
              ELSE /\ mu' = [mu EXCEPT ![s] = "free"]
                   /\ tpc' = [tpc EXCEPT ![t] = "idle"]
                   /\ last' = [op |-> "Set", id |-> tloc[t].id, shard |-> s,
                               indexData |-> <<>>, destMap |-> EmptyMap, err |-> "io"]
                   /\ UNCHANGED tloc
    /\ UNCHANGED <<engineVars, Items, capacity, handle, heap, fc, nextId, panicked,
                   written, route>>

\* offset := ShardOffset{ret, n, false}, the loop over indexData, the identity
\* entry, the return and the deferred shard.Unlock()
SetIndex(t, indexData) ==
    /\ ~panicked
    /\ tpc[t] = "index"
    /\ LET s == tloc[t].shard
           n == tloc[t].id
           st0 == [Items |-> Items[s], capacity |-> capacity[s],
                   destMap |-> EmptyMap, err |-> "nil"]
           st1 == InsertIndexes(indexData, 1, n, s, st0)
           st2 == IF st1.err = "nil"
                  THEN [st1 EXCEPT !.Items = PutItem(@, IdKey(n), n),
                                   !.destMap = (IdKey(n) :> s) @@ @]
                  ELSE st1
       IN  /\ Items' = [Items EXCEPT ![s] = st2.Items]
           /\ capacity' = [capacity EXCEPT ![s] = st2.capacity]
           /\ heap' = IF st2.Items # Items[s]
                      THEN (n :> NewOffset(tloc[t].ret, tloc[t].n)) @@ heap
                      ELSE heap
           /\ last' = [op |-> "Set", id |-> n, shard |-> s, indexData |-> indexData,
                       destMap |-> IF st2.err = "nil" THEN st2.destMap ELSE EmptyMap,
                       err |-> st2.err]
           /\ written' = IF st2.err = "nil"
                         THEN (n :> [shard |-> s, keys |-> DOMAIN st2.destMap,
                                     bytes |-> tloc[t].data]) @@ written
                         ELSE written
           /\ mu' = [mu EXCEPT ![s] = "free"]
    /\ tpc' = [tpc EXCEPT ![t] = "idle"]
    /\ UNCHANGED <<engineVars, file, handle, fc, nextId, panicked, tloc, route>>

\* entry of Flush: the loop "for _, shard := range cm.Shared" starts
FlushBegin(t) ==
    /\ ~panicked
    /\ tpc[t] = "idle"
    /\ tpc' = [tpc EXCEPT ![t] = "flush"]
    /\ tloc' = [tloc EXCEPT ![t] = [i |-> 0]]
    /\ UNCHANGED <<engineVars, shardVars, findVars, nextId, panicked, last,
                   written, route>>

\* shard.Lock(); shard.file.Close()
FlushClose(t) ==
    /\ ~panicked
    /\ tpc[t] = "flush"
    /\ tloc[t].i < shardCount
    /\ mu[tloc[t].i] = "free"
    /\ mu' = [mu EXCEPT ![tloc[t].i] = t]
    /\ handle' = [handle EXCEPT ![tloc[t].i] = "closed"]
    /\ tpc' = [tpc EXCEPT ![t] = "reopen"]
    /\ UNCHANGED <<engineVars, Items, capacity, file, heap, fc, nextId, panicked,
                   last, written, tloc, route>>

\* f, err := os.OpenFile(...): on an error shard.Unlock() and return err, with
\* the closed handle left in shard.file; else shard.file = f; shard.Unlock()
FlushReopen(t, ok) ==
    /\ ~panicked
    /\ tpc[t] = "reopen"
    /\ mu' = [mu EXCEPT ![tloc[t].i] = "free"]
    /\ IF ok
       THEN /\ handle' = [handle EXCEPT ![tloc[t].i] = "open"]
            /\ tloc' = [tloc EXCEPT ![t].i = @ + 1]
            /\ tpc' = [tpc EXCEPT ![t] = "flush"]
            /\ UNCHANGED last
       ELSE /\ last' = [op |-> "Flush", shard |-> tloc[t].i, err |-> "io"]
            /\ tpc' = [tpc EXCEPT ![t] = "idle"]
            /\ UNCHANGED <<handle, tloc>>
    /\ UNCHANGED <<engineVars, Items, capacity, file, heap, fc, nextId, panicked,
                   written, route>>

\* return nil
FlushReturn(t) ==
    /\ ~panicked
    /\ tpc[t] = "flush"
    /\ tloc[t].i >= shardCount
    /\ last' = [op |-> "Flush", shard |-> shardCount, err |-> "nil"]
    /\ tpc' = [tpc EXCEPT ![t] = "idle"]
    /\ UNCHANGED <<engineVars, shardVars, findVars, nextId, panicked, written,
                   tloc, route>>

-----------------------------------------------------------------------------
(* OptimizeShards *)

\* the descriptors a shard's index refers to that are not marked deleted
LiveOf(s) == {a \in DOMAIN heap : (\E k \in DOMAIN Items[s] : Items[s][k] = a)
                                  /\ ~heap[a].Deleted}

RECURSIVE SumLength(_)
\* the bytes the blocks of the descriptors in S take
SumLength(S) ==
    IF S = {} THEN 0
    ELSE LET a == CHOOSE x \in S : TRUE
         IN  heap[a].Length + SumLength(S \ {a})

RECURSIVE CopyLive(_, _)
\* the new file of a compaction: the blocks of the descriptors in S read from
\* the old file f, in the order of their positions
CopyLive(f, S) ==
    IF S = {} THEN <<>>
    ELSE LET a == CHOOSE x \in S : \A y \in S : heap[x].Start <= heap[y].Start
         IN  SubSeq(f, heap[a].Start + 1, heap[a].Start + heap[a].Length)
                \o CopyLive(f, S \ {a})

\* the ordinals a shard may hold for one fingerprint
Ordinals == 0 .. MaxSets

\* the ordinals of fingerprint kv in shard s whose descriptor is live
LiveOrdinals(s, kv) ==
    {i \in Ordinals : OrdKey(i, kv) \in DOMAIN Items[s]
                      /\ ~heap[Items[s][OrdKey(i, kv)]].Deleted}

\* shard.Optimize(): the live blocks are copied to a new file and their
\* descriptors point into it; deleted descriptors and their index entries are
\* dropped; surviving ordinals are renumbered from 0 and the capacity map
\* follows; n is the number of bytes by which the file shrank.
Optimize(s) ==
    LET live == LiveOf(s)
        fps == DOMAIN capacity[s]
        ordKeys == {OrdKey(i, kv) : i \in Ordinals, kv \in fps}
        plain == {k \in DOMAIN Items[s] \ ordKeys : ~heap[Items[s][k]].Deleted}
        rank(kv, i) == Cardinality({j \in LiveOrdinals(s, kv) : j < i})
        newOrd == {<<kv, i>> \in fps \X Ordinals : i \in LiveOrdinals(s, kv)}
        newKeys == plain \cup {OrdKey(rank(p[1], p[2]), p[1]) : p \in newOrd}
        source(k) == IF k \in plain THEN k
                     ELSE LET p == CHOOSE q \in newOrd :
                                      OrdKey(rank(q[1], q[2]), q[1]) = k
                          IN  OrdKey(p[2], p[1])
        newFile == CopyLive(file[s], live)
    IN  [Items |-> [k \in newKeys |-> Items[s][source(k)]],
         capacity |-> [kv \in fps |-> Cardinality(LiveOrdinals(s, kv))],
         file |-> newFile,
         starts |-> [a \in live |->
                       SumLength({b \in live : heap[b].Start < heap[a].Start})],
         n |-> Len(file[s]) - Len(newFile)]

\* the results of shard.Optimize() on the shards below i
OptimizeBelow(i) == [n \in 0 .. (i - 1) |-> Optimize(n)]

\* OptimizeShards: "n, err = shard.Optimize()" for each shard in the order of
\* cm.Shared, returning at the first error; failAt is the first shard whose
\* Optimize fails (shardCount: none does), and a failing Optimize changes
\* nothing and returns 0 bytes.
OptimizeShards(failAt) ==
    /\ ~panicked
    /\ fc.pc = "idle"
    /\ \A n \in Shards : mu[n] = "free"
    /\ failAt \in 0 .. shardCount
    /\ LET res == OptimizeBelow(failAt)
           done == DOMAIN res
       IN  /\ Items' = [n \in Shards |-> IF n \in done THEN res[n].Items ELSE Items[n]]
           /\ capacity' = [n \in Shards |->
                             IF n \in done THEN res[n].capacity ELSE capacity[n]]
           /\ file' = [n \in Shards |-> IF n \in done THEN res[n].file ELSE file[n]]
           /\ heap' = [a \in DOMAIN heap |->
                         IF \E n \in done : a \in DOMAIN res[n].starts
                         THEN LET n == CHOOSE m \in done : a \in DOMAIN res[m].starts
                              IN  [heap[a] EXCEPT !.Start = res[n].starts[a]]
                         ELSE heap[a]]
           /\ last' = [op |-> "OptimizeShards",
                       n |-> IF failAt < shardCount THEN 0
                             ELSE IF shardCount = 0 THEN 0
                             ELSE res[shardCount - 1].n,
                       err |-> IF failAt < shardCount THEN "io" ELSE "nil",
                       called |-> [i \in 1 .. Min(failAt + 1, shardCount) |-> i - 1],
                       reclaimed |-> [i \in 1 .. failAt |-> res[i - 1].n]]
    /\ UNCHANGED <<engineVars, handle, findVars, nextId, panicked, written,
                   threadVars, route>>

-----------------------------------------------------------------------------
(* Sync and the restore of the counter on open *)

\* cm.SyncDestination, as characters
SyncDestination == <<"d", "b">>

\* the decimal digits
Digits == 0 .. 9

RECURSIVE FormatUint(_)
\* strconv.FormatUint(n, 10), as characters
FormatUint(n) ==
    IF n < 10 THEN <<ToString(n)>>
    ELSE FormatUint(n \div 10) \o <<ToString(n % 10)>>

RECURSIVE ParseUint(_)
\* the number a sequence of decimal digit characters denotes
ParseUint(q) ==
    IF q = <<>> THEN 0
    ELSE ParseUint(SubSeq(q, 1, Len(q) - 1)) * 10
            + (CHOOSE d \in Digits : ToString(d) = q[Len(q)])

\* the first line of a text: the characters before the first "\n"
FirstLine(q) ==
    IF \E i \in DOMAIN q : q[i] = "\n"
    THEN SubSeq(q, 1, (CHOOSE i \in DOMAIN q :
                          q[i] = "\n" /\ \A j \in 1 .. (i - 1) : q[j] # "\n") - 1)
    ELSE q

\* []byte(strconv.FormatUint(cm.counter, 10) + "\n" + cm.SyncDestination)
IndexFile(c) == FormatUint(c) \o <<"\n">> \o SyncDestination

\* entry of Sync: the loop over cm.Shared starts
SyncBegin(t) ==
    /\ ~panicked
    /\ tpc[t] = "idle"
    /\ tpc' = [tpc EXCEPT ![t] = "sync"]
    /\ tloc' = [tloc EXCEPT ![t] = [i |-> 0]]
    /\ UNCHANGED <<engineVars, shardVars, findVars, nextId, panicked, last,
                   written, route>>

\* err = shard.Sync() for the next shard, which flushes the shard's file under
\* the shard's lock; an error is returned at once
SyncShard(t, ok) ==
    /\ ~panicked
    /\ tpc[t] = "sync"
    /\ tloc[t].i < shardCount
    /\ mu[tloc[t].i] = "free"
    /\ IF ok
       THEN /\ tloc' = [tloc EXCEPT ![t].i = @ + 1]
            /\ UNCHANGED <<tpc, last>>
       ELSE /\ tpc' = [tpc EXCEPT ![t] = "idle"]
            /\ last' = [op |-> "Sync", err |-> "io", shard |-> tloc[t].i,
                        index |-> mapIndex]
            /\ UNCHANGED tloc
    /\ UNCHANGED <<engineVars, shardVars, findVars, nextId, panicked, written, route>>

\* the write of map.index without taking cm.counterMx
SyncWriteUnlocked(t, ok) ==
    /\ ~panicked
    /\ tpc[t] = "sync"
    /\ tloc[t].i >= shardCount
    /\ mapIndex' = IF ok THEN IndexFile(counter) ELSE mapIndex
    /\ last' = [op |-> "Sync", err |-> IF ok THEN "nil" ELSE "io",
                shard |-> shardCount, index |-> mapIndex']
    /\ tpc' = [tpc EXCEPT ![t] = "idle"]
    /\ UNCHANGED <<shardCount, iter, counter, counterMx, shardVars, findVars, nextId,
                   panicked, written, tloc, route>>

\* cm.counterMx.Lock(); err = ioutil.WriteFile(...); cm.counterMx.Unlock();
\* return err.  A failing WriteFile leaves map.index as it was.
SyncWrite(t, ok) ==
    /\ ~panicked
    /\ tpc[t] = "sync"
    /\ tloc[t].i >= shardCount
    /\ counterMx = "free"
    /\ mapIndex' = IF ok THEN IndexFile(counter) ELSE mapIndex
    /\ last' = [op |-> "Sync", err |-> IF ok THEN "nil" ELSE "io",
                shard |-> shardCount, index |-> mapIndex']
    /\ tpc' = [tpc EXCEPT ![t] = "idle"]
    /\ UNCHANGED <<shardCount, iter, counter, counterMx, shardVars, findVars, nextId,
                   panicked, written, tloc, route>>

\* the counter an engine starts with: read from the first line of map.index
\* when the file is there
RestoredCounter == IF mapIndex = <<>> THEN 0 ELSE ParseUint(FirstLine(mapIndex))

\* close and open: the engine is opened again on the same destination when no
\* call is in progress; the counter is restored from map.index and the
\* indexes are rebuilt to what the shard files hold
Open ==
    /\ ~panicked
    /\ fc.pc = "idle"
    /\ \A t \in Threads : tpc[t] = "idle"
    /\ last.op # "Open"
    /\ counter' = RestoredCounter
    /\ route' = [c0 |-> RestoredCounter, given |-> <<>>]
    /\ last' = [op |-> "Open", counter |-> RestoredCounter]
    /\ UNCHANGED <<shardCount, iter, mapIndex, counterMx, shardVars, findVars, nextId,
                   panicked, written, threadVars>>

-----------------------------------------------------------------------------
(* Iter, IterBuffered, snapshot and fanIn *)

\* what no iterator action changes
iterFrame == <<shardCount, mapIndex, counter, counterMx, Items, capacity, file,
               handle, heap, nextId, panicked, last, written, fc, tpc, tloc, route>>

\* the entries of shard n as tuples; the shard is a ghost field
TuplesOf(items, n) == {[Key |-> k, Val |-> items[k], shard |-> n] : k \in DOMAIN items}

\* chans := snapshot(m) up to the start of the goroutines: one goroutine per
\* shard, none of the channels made yet
StartSnapshot(buffered) ==
    /\ ~panicked
    /\ iter.pc = "idle"
    /\ iter' = [pc |-> "snapshot", buffered |-> buffered, from |-> nextId,
                snap |-> [n \in Shards |-> "start"],
                pushed |-> [n \in Shards |-> {}],
                chans |-> [n \in Shards |-> [cap |-> 0, buf |-> {}, closed |-> FALSE]],
                out |-> [cap |-> 0, buf |-> {}, closed |-> FALSE],
                work |-> [n \in Shards |-> "wait"],
                got |-> {}, received |-> 0]
    /\ UNCHANGED mu
    /\ UNCHANGED iterFrame

\* func (m *ConcurrentMap) Iter()
Iter == StartSnapshot(FALSE)

\* func (m *ConcurrentMap) IterBuffered()
IterBuffered == StartSnapshot(TRUE)

\* the goroutine of shard n without shard.RLock()
SnapMakeNoLock(n) ==
    /\ iter.pc \in {"snapshot", "fanIn"}
    /\ iter.snap[n] = "start"
    /\ iter' = [iter EXCEPT !.snap[n] = "push",
                            !.chans[n].cap = Cardinality(DOMAIN Items[n])]
    /\ UNCHANGED mu
    /\ UNCHANGED iterFrame

\* the goroutine of shard n: shard.RLock(); chans[index] = make(chan Tuple,
\* len(shard.Items)); wg.Done()
SnapMake(n) ==
    /\ iter.pc \in {"snapshot", "fanIn"}
    /\ iter.snap[n] = "start"
    /\ mu[n] = "free"
    /\ mu' = [mu EXCEPT ![n] = "snapshot"]
    /\ iter' = [iter EXCEPT !.snap[n] = "push",
                            !.chans[n].cap = Cardinality(DOMAIN Items[n])]
    /\ UNCHANGED iterFrame

\* one round of "for key, val := range shard.Items": chans[index] <- Tuple{key,
\* val} for a key the loop has not visited; the send needs room in the channel
SnapPush(n) ==
    /\ iter.pc \in {"snapshot", "fanIn"}
    /\ iter.snap[n] = "push"
    /\ Cardinality(iter.chans[n].buf) < iter.chans[n].cap
    /\ \E k \in DOMAIN Items[n] \ iter.pushed[n] :
          iter' = [iter EXCEPT !.pushed[n] = @ \cup {k},
                               !.chans[n].buf = @ \cup
                                  {[Key |-> k, Val |-> Items[n][k], shard |-> n]}]
    /\ UNCHANGED mu
    /\ UNCHANGED iterFrame

\* the end of the loop: shard.RUnlock(); close(chans[index])
SnapClose(n) ==
    /\ iter.pc \in {"snapshot", "fanIn"}
    /\ iter.snap[n] = "push"
    /\ DOMAIN Items[n] \subseteq iter.pushed[n]
    /\ mu' = [mu EXCEPT ![n] = IF @ = "snapshot" THEN "free" ELSE @]
    /\ iter' = [iter EXCEPT !.snap[n] = "done", !.chans[n].closed = TRUE]
    /\ UNCHANGED iterFrame

\* wg.Wait() in snapshot returns once every goroutine has made its channel;
\* the caller makes the output channel (with the sum of the capacities in
\* IterBuffered, unbuffered in Iter) and starts fanIn with its goroutines
SnapshotReturn ==
    /\ iter.pc = "snapshot"
    /\ \A n \in Shards : iter.snap[n] # "start"
    /\ LET RECURSIVE Total(_)
           Total(i) == IF i >= shardCount THEN 0
                       ELSE iter.chans[i].cap + Total(i + 1)
       IN  iter' = [iter EXCEPT !.pc = "fanIn",
                                !.out.cap = IF iter.buffered THEN Total(0) ELSE 0,
                                !.work = [n \in Shards |-> "run"]]
    /\ UNCHANGED mu
    /\ UNCHANGED iterFrame

\* a fanIn goroutine: "for t := range ch { out <- t }", one tuple.  On the
\* unbuffered output channel the send meets the consumer's receive.
FanInMove(n) ==
    /\ iter.pc = "fanIn"
    /\ iter.work[n] = "run"
    /\ \E t \in iter.chans[n].buf :
          IF iter.buffered
          THEN /\ Cardinality(iter.out.buf) < iter.out.cap
               /\ iter' = [iter EXCEPT !.chans[n].buf = @ \ {t},
                                       !.out.buf = @ \cup {t}]
          ELSE iter' = [iter EXCEPT !.chans[n].buf = @ \ {t},
                                    !.got = @ \cup {t},
                                    !.received = @ + 1]
    /\ UNCHANGED mu
    /\ UNCHANGED iterFrame

\* the range loop of a fanIn goroutine ends when its channel is closed and
\* drained: wg.Done()
FanInDone(n) ==
    /\ iter.pc = "fanIn"
    /\ iter.work[n] = "run"
    /\ iter.chans[n].closed
    /\ iter.chans[n].buf = {}
    /\ iter' = [iter EXCEPT !.work[n] = "done"]
    /\ UNCHANGED mu
    /\ UNCHANGED iterFrame

\* wg.Wait(); close(out)
FanInClose ==
    /\ iter.pc = "fanIn"
    /\ \A n \in Shards : iter.work[n] = "done"
    /\ iter' = [iter EXCEPT !.pc = "closed", !.out.closed = TRUE]
    /\ UNCHANGED mu
    /\ UNCHANGED iterFrame

\* the consumer receives a tuple from the buffered output channel
Receive ==
    /\ iter.pc \in {"fanIn", "closed"}
    /\ \E t \in iter.out.buf :
          iter' = [iter EXCEPT !.out.buf = @ \ {t},
                               !.got = @ \cup {t},
                               !.received = @ + 1]
    /\ UNCHANGED mu
    /\ UNCHANGED iterFrame

-----------------------------------------------------------------------------
(* The state after NewConcurrentMap *)

InitWith(sc) ==
    /\ shardCount = sc
    /\ iter = [pc |-> "idle"]
    /\ mapIndex = <<>>
    /\ counter = 0
    /\ counterMx = "free"
    /\ Items = [n \in 0 .. (sc - 1) |-> EmptyMap]
    /\ capacity = [n \in 0 .. (sc - 1) |-> EmptyMap]
    /\ file = [n \in 0 .. (sc - 1) |-> <<>>]
    /\ handle = [n \in 0 .. (sc - 1) |-> "open"]
    /\ mu = [n \in 0 .. (sc - 1) |-> "free"]
    /\ heap = EmptyMap
    /\ nextId = 1
    /\ panicked = FALSE
    /\ last = [op |-> "New"]
    /\ written = EmptyMap
    /\ fc = [pc |-> "idle"]
    /\ tpc = [t \in Threads |-> "idle"]
    /\ tloc = [t \in Threads |-> [id |-> 0, shard |-> -1]]
    /\ route = [c0 |-> 0, given |-> <<>>]

Init == InitWith(SHARD_COUNT)

\* the shards a caller addresses: those a Set has written to
ShardArgs == {n \in Shards : Items[n] # EmptyMap}

\* the ids a Set has installed in shard s
IdArgs(s) == {<<"id", XidString(i)>> : i \in {j \in 1 .. (nextId - 1) : IdKey(j) \in DOMAIN Items[s]}}

\* the unique keys a caller asks shard s for
UniqueArgs(s) == {<<"email", "a@x">>} \cup IdArgs(s)

\* The calls on single records, one at a time.
Next ==
    \/ \E in \in SetInputs : Set(in[1], in[2], in[3], in[4])
    \/ \E v \in CounterInputs : SetCounterIndex(v)
    \/ \E s \in ShardArgs : \E u \in UniqueArgs(s), ioOk \in BOOLEAN :
          FindByUniqueKey(s, u[1], u[2], ioOk)
    \/ \E s \in ShardArgs : \E u \in UniqueArgs(s) : DeleteByUniqueKey(s, u[1], u[2])
    \/ \E s \in ShardArgs : \E u \in UniqueArgs(s) : RestoreByUniqueKey(s, u[1], u[2])

Spec == Init /\ [][Next]_vars

\* The calls on the non-unique keys, one at a time.  DeleteByUniqueKey supplies
\* the tombstones that DeleteByKey did not make; RestoreByUniqueKey runs in Spec.
NextByKey ==
    \/ \E in \in KeyInputs : Set(in[1], in[2], in[3], in[4])
    \/ SetCounterIndex(0)
    \/ \E s \in ShardArgs : \E u \in IdArgs(s) : DeleteByUniqueKey(s, u[1], u[2])
    \/ \E limit \in Limits : DeleteByKey("tag", "red", limit)
    \/ \E limit \in Limits : RestoreByKey("tag", "red", limit)

SpecByKey == Init /\ [][NextByKey]_vars

\* the Set calls of the runs that exercise FindByKey
FindInputs ==
    { <<<<TagRed>>, <<1>>, "ok", 0>>,
      <<<<TagRed>>, <<2, 3>>, "ok", 0>> }

\* the steps of the goroutine that runs FindByKey
FindStep == FindNextShard \/ \E ioOk \in BOOLEAN : FindScanStep(ioOk)

\* FindByKey step by step, between calls that insert and delete records.
NextFind ==
    \/ \E in \in FindInputs : Set(in[1], in[2], in[3], in[4])
    \/ SetCounterIndex(0)
    \/ \E s \in ShardArgs : \E u \in IdArgs(s) : DeleteByUniqueKey(s, u[1], u[2])
    \/ \E limit \in 1 .. MaxLimit : FindByKeyCall("tag", "red", limit)
    \/ FindNextShard
    \/ \E ioOk \in BOOLEAN : FindScanStep(ioOk)

\* a goroutine that can take a step eventually takes it
SpecFind == Init /\ [][NextFind]_vars /\ WF_vars(FindStep)

\* the Set calls of the runs that delete and restore through every kind of key
FlagInputs ==
    { <<<<UniqueEmail, TagRed>>, <<1>>, "ok", 0>>,
      <<<<TagRed, TagRed>>, <<2, 3>>, "ok", 0>> }

\* Deletes and restores through the identity, unique and non-unique keys of
\* records that have several keys, one call at a time.
NextFlags ==
    \/ \E in \in FlagInputs : Set(in[1], in[2], in[3], in[4])
    \/ SetCounterIndex(0)
    \/ \E s \in ShardArgs : \E u \in UniqueArgs(s) : DeleteByUniqueKey(s, u[1], u[2])
    \/ \E s \in ShardArgs : \E u \in UniqueArgs(s) : RestoreByUniqueKey(s, u[1], u[2])
    \/ \E limit \in {1, MaxLimit} : DeleteByKey("tag", "red", limit)
    \/ \E limit \in {1, MaxLimit} : RestoreByKey("tag", "red", limit)

SpecFlags == Init /\ [][NextFlags]_vars

\* the Set calls of the runs that count the entries
TotalInputs ==
    { <<<<UniqueEmail>>, <<1>>, "ok", 0>>,
      <<<<TagRed, UniqueEmail>>, <<2, 3>>, "ok", 0>> }

\* Count and IsEmpty between inserts, deletes and restores, one call at a time.
NextTotal ==
    \/ \E in \in TotalInputs : Set(in[1], in[2], in[3], in[4])
    \/ SetCounterIndex(0)
    \/ \E s \in ShardArgs : \E u \in UniqueArgs(s) : DeleteByUniqueKey(s, u[1], u[2])
    \/ \E s \in ShardArgs : \E u \in UniqueArgs(s) : RestoreByUniqueKey(s, u[1], u[2])
    \/ DeleteByKey("tag", "red", MaxLimit)
    \/ RestoreByKey("tag", "red", MaxLimit)
    \/ Count
    \/ IsEmpty

SpecTotal == Init /\ [][NextTotal]_vars

\* Count on a thread, shard by shard, while records are inserted, deleted and
\* restored.
NextCount ==
    \/ \E in \in TotalInputs : Set(in[1], in[2], in[3], in[4])
    \/ \E s \in ShardArgs : \E u \in IdArgs(s) : DeleteByUniqueKey(s, u[1], u[2])
    \/ \E s \in ShardArgs : \E u \in IdArgs(s) : RestoreByUniqueKey(s, u[1], u[2])
    \/ CountBegin("t1")
    \/ CountShard("t1")
    \/ CountReturn("t1")

SpecCount == Init /\ [][NextCount]_vars

\* the steps of the iterator's goroutines and of its consumer
IterSteps ==
    \/ \E n \in Shards : SnapMake(n)
    \/ \E n \in Shards : SnapPush(n)
    \/ \E n \in Shards : SnapClose(n)
    \/ SnapshotReturn
    \/ \E n \in Shards : FanInMove(n)
    \/ \E n \in Shards : FanInDone(n)
    \/ FanInClose
    \/ Receive

\* the number of Sets that run next to the iterator call
MaxIterSets == 2

\* a Set, which needs the lock of the shard it is routed to
IterSet ==
    /\ NextCounter(counter) \in Shards
    /\ mu[NextCounter(counter)] = "free"
    /\ nextId <= MaxIterSets
    /\ Set(<<TagRed>>, <<1>>, "ok", 0)

\* One Iter or IterBuffered call next to Sets and SetCounterIndex.
NextIter ==
    \/ Iter
    \/ IterBuffered
    \/ IterSteps
    \/ IterSet
    \/ SetCounterIndex(0)

\* The goroutines of the iterator are scheduled, and the consumer keeps
\* receiving.
SpecIter == Init /\ [][NextIter]_vars /\ WF_vars(IterSteps)

\* Sets on one thread with GetNextShard one statement per step, SetCounterIndex,
\* Sync on the other thread, and the engine closed and opened again.
NextSync ==
    \/ SetBegin("t1")
    \/ GetNextShardLock("t1")
    \/ GetNextShardInc("t1")
    \/ GetNextShardWrap("t1")
    \/ GetNextShardReturn("t1")
    \/ SetBody("t1", <<>>, <<1>>, "ok", 0)
    \/ SetCounterIndex(SHARD_COUNT - 1)
    \/ SyncBegin("t2")
    \/ \E ok \in BOOLEAN : SyncShard("t2", ok)
    \/ \E ok \in BOOLEAN : SyncWrite("t2", ok)
    \/ Open

SpecSync == Init /\ [][NextSync]_vars

\* the Sets whose records are compacted: two records, and a Set whose Write
\* fails after one byte
OptimizeInputs ==
    { << <<TagRed>>, <<1>>, "ok", 0 >>,
      << <<UniqueEmail, TagRed>>, <<2, 3>>, "ok", 0 >>,
      << <<TagRed>>, <<1>>, "write", 1 >> }

\* Sets, point deletes and compactions.
NextOptimize ==
    \/ \E in \in OptimizeInputs : Set(in[1], in[2], in[3], in[4])
    \/ SetCounterIndex(0)
    \/ \E s \in ShardArgs : \E u \in UniqueArgs(s) : DeleteByUniqueKey(s, u[1], u[2])
    \/ \E failAt \in 0 .. SHARD_COUNT : OptimizeShards(failAt)

SpecOptimize == Init /\ [][NextOptimize]_vars

\* the index descriptors of the Sets that run next to Flush and the reads
TornInputs == { <<TagRed>>, <<TagRed, UniqueEmail>> }

\* the payload of the n-th Set: the two payload lengths alternate
TornPayload(n) == IF n % 2 = 1 THEN <<1>> ELSE <<2, 3>>

\* the shard on which the Sets, the failing reopen and the reads meet: the one
\* the first Set, and every Set after SetCounterIndex(0), goes to
TornShard == 1

\* Sets with their file operations as steps on both threads, Flush on the
\* second thread, and reads.  A Seek or a read fails when the handle is closed.
NextTorn ==
    \/ \E t \in Threads : SetEnter(t, TornPayload(nextId))
    \/ \E t \in Threads : SetLockShard(t)
    \/ \E t \in Threads : SetSeek(t, TRUE)
    \/ \E t \in Threads : \E full \in BOOLEAN : SetWrite(t, full)
    \/ \E t \in Threads : \E indexData \in TornInputs : SetIndex(t, indexData)
    \/ SetCounterIndex(0)
    \/ FlushBegin("t2")
    \/ FlushClose("t2")
    \/ \E ok \in BOOLEAN : FlushReopen("t2", ok \/ tloc["t2"].i # TornShard)
    \/ FlushReturn("t2")
    \/ \E s \in ShardArgs \cap {TornShard} : \E u \in UniqueArgs(s) :
          FindByUniqueKey(s, u[1], u[2], handle[s] = "open")

SpecTorn == Init /\ [][NextTorn]_vars

\* the numbers of shards a map is built with: the default and its neighbours
ShardCounts == {SHARD_COUNT - 1, SHARD_COUNT, SHARD_COUNT + 1}

InitRoute == \E sc \in ShardCounts : InitWith(sc)

\* Sets on concurrent threads and SetCounterIndex, for every number of shards.
NextRoute ==
    \/ \E t \in Threads : SetBegin(t)
    \/ \E t \in Threads : GetNextShardLock(t)
    \/ \E t \in Threads : GetNextShardInc(t)
    \/ \E t \in Threads : GetNextShardWrap(t)
    \/ \E t \in Threads : GetNextShardReturn(t)
    \/ \E t \in Threads : SetBody(t, <<>>, <<1>>, "ok", 0)
    \/ \E v \in {0, SHARD_COUNT - 1, SHARD_COUNT, SHARD_COUNT + 1} : SetCounterIndex(v)

SpecRoute == InitRoute /\ [][NextRoute]_vars

-----------------------------------------------------------------------------
(* Point lookups, Set's result and the duplicate unique key  (Spec) *)

\* C1: a FindByUniqueKey / FindById on a key whose descriptor is marked
\* deleted (deleted and not restored since) returns "not found" and no
\* payload bytes.
C1_TombstoneNotFound ==
    (/\ last.op = "FindByUniqueKey"
     /\ last.key \in DOMAIN Items[last.shard]
     /\ heap[Items[last.shard][last.key]].Deleted)
    => (last.err = "not found" /\ last.data = <<>>)

\* the keys of shard s that point to descriptor a
KeysOf(s, a) == {k \in DOMAIN Items[s] : Items[s][k] = a}

\* the keys the descriptors of a list must have produced, whatever the ordinals
HasKeyFor(keys, ix) ==
    IF ix.Unique THEN FullKey(ix) \in keys
    ELSE \E i \in 0 .. (2 * MaxSets) : OrdKey(i, FullKey(ix)) \in keys

\* C9: a successful Set returns a map whose keys are exactly the index keys
\* it installed (the id key, one key per descriptor) and whose values are the
\* shard round-robin chose; the returned keys stay in that shard's index, and
\* a later FindById / FindByUniqueKey on that shard, while the record is not
\* deleted, returns exactly the bytes the Set appended.
C9_SetRoundTrip ==
    /\ (last.op = "Set" /\ last.err = "nil") =>
          /\ DOMAIN last.destMap = KeysOf(last.shard, last.id)
          /\ IdKey(last.id) \in DOMAIN last.destMap
          /\ Cardinality(DOMAIN last.destMap) = Len(last.indexData) + 1
          /\ \A j \in 1 .. Len(last.indexData) :
                HasKeyFor(DOMAIN last.destMap, last.indexData[j])
          /\ \A k \in DOMAIN last.destMap : last.destMap[k] = last.shard
          /\ last.shard = counter
    /\ \A n \in DOMAIN written :
          /\ written[n].keys = KeysOf(written[n].shard, n)
          /\ n \in DOMAIN heap
    /\ (/\ last.op = "FindByUniqueKey"
        /\ last.ioOk
        /\ \E n \in DOMAIN written :
              /\ written[n].shard = last.shard
              /\ last.key \in written[n].keys
              /\ ~heap[n].Deleted)
       => /\ last.err = "nil"
          /\ \A n \in DOMAIN written :
                (written[n].shard = last.shard /\ last.key \in written[n].keys)
                => last.data = written[n].bytes

\* C9 witness: a record that is not the first block of its file was found by
\* one of the keys its Set returned
C9_Witness ==
    /\ last.op = "FindByUniqueKey"
    /\ last.err = "nil"
    /\ \E n \in DOMAIN written :
          /\ written[n].shard = last.shard
          /\ last.key \in written[n].keys
          /\ heap[n].Start > 0
          /\ last.data = written[n].bytes

\* a step in which a Set returned the duplicate-key error
SetDuplicateStep ==
    /\ nextId' = nextId + 1
    /\ last'.op = "Set"
    /\ last'.err = "duplicate"

\* C10 as stated: after a Set that fails on a duplicate unique key the offset
\* index and the capacity map of the shard are the same as before the call.
C10_DuplicateLeavesNothing ==
    [][SetDuplicateStep => (Items' = Items /\ capacity' = capacity)]_vars

\* position of the first descriptor of the list whose unique key is already in
\* the index idx
RECURSIVE FirstCollision(_, _, _)
FirstCollision(indexData, idx, j) ==
    IF j > Len(indexData) THEN 0
    ELSE IF indexData[j].Unique /\ FullKey(indexData[j]) \in DOMAIN idx THEN j
    ELSE FirstCollision(indexData, idx, j + 1)

\* C10 amended: a Set that fails on a duplicate unique key returns the error
\* and no key map; every entry that was in the index still points to its
\* descriptor, no identity entry is added, and what is added is one entry per
\* descriptor that precedes the colliding one; index and capacity map are
\* unchanged when the colliding descriptor is the first of the list.
C10_DuplicateKeepsEarlier ==
    [][SetDuplicateStep =>
        LET s == last'.shard
            n == last'.id
            p == FirstCollision(last'.indexData, Items[s], 1)
            added == DOMAIN Items'[s] \ DOMAIN Items[s]
        IN  /\ last'.destMap = EmptyMap
            /\ p >= 1
            /\ \A k \in DOMAIN Items[s] :
                  k \in DOMAIN Items'[s] /\ Items'[s][k] = Items[s][k]
            /\ IdKey(n) \notin DOMAIN Items'[s]
            /\ \A k \in added : Items'[s][k] = n
            /\ Cardinality(added) = p - 1
            /\ \A j \in 1 .. (p - 1) : HasKeyFor(added, last'.indexData[j])
            /\ \A m \in Shards \ {s} : Items'[m] = Items[m] /\ capacity'[m] = capacity[m]
            /\ (p = 1) => (Items' = Items /\ capacity' = capacity)
    ]_vars

\* C10 witness: a Set failed on a duplicate key after it had installed the
\* entry of an earlier descriptor
C10_Witness ==
    /\ last.op = "Set"
    /\ last.err = "duplicate"
    /\ KeysOf(last.shard, last.id) # {}
    /\ "email:a@x" \in DOMAIN Items[last.shard]
    /\ Items[last.shard]["email:a@x"] # last.id

-----------------------------------------------------------------------------
(* The non-unique keys  (SpecByKey) *)

\* an upper bound of the ordinals a run can assign
OrdLimit == 4 * MaxSets + 4

\* every key of every index is an id key, the e-mail key or a tag key whose
\* ordinal is below OrdLimit (so that the definitions below see every entry)
KeysWithinOrdLimit ==
    \A n \in Shards : \A k \in DOMAIN Items[n] :
        \/ k = "email:a@x"
        \/ \E i \in 1 .. MaxSets : k = IdKey(i)
        \/ \E i \in 0 .. (OrdLimit - 1) : k = OrdKey(i, "tag:red")

\* the non-unique entries of fingerprint kv: <<shard, ordinal>>
Entries(kv) ==
    {e \in Shards \X (0 .. OrdLimit) : OrdKey(e[2], kv) \in DOMAIN Items[e[1]]}

\* the descriptor of an entry
Desc(e, kv) == Items[e[1]][OrdKey(e[2], kv)]

\* C4: DeleteByKey(field, data, N), N >= 1, in a state with k live non-unique
\* entries of the fingerprint, marks exactly min(N, k) of them deleted and
\* returns exactly min(N, k) keys.
C4_DeleteByKeyCount ==
    (last.op = "DeleteByKey" /\ last.limit >= 1) =>
        LET liveBefore == {e \in Entries(last.kv) : Desc(e, last.kv) \notin last.pre}
            marked == {e \in liveBefore : heap[Desc(e, last.kv)].Deleted}
            want == Min(last.limit, Cardinality(liveBefore))
        IN  /\ Len(last.deletedDests) = want
            /\ Cardinality(marked) = want

RestoreAfterDelete ==
    /\ last.op = "DeleteByKey"
    /\ last'.op = "RestoreByKey"
    /\ last'.kv = last.kv
    /\ last'.limit >= Len(last.deletedDests)

\* C6 as stated: such a RestoreByKey returns the number of keys the
\* DeleteByKey returned and leaves the set of deleted descriptors as it was
\* before the DeleteByKey.
C6_RestoreUndoesDelete ==
    [][RestoreAfterDelete =>
        /\ last'.n = Len(last.deletedDests)
        /\ DeletedSet' = last.pre
    ]_vars

\* C6 amended: the same, provided no entry of the fingerprint was marked
\* deleted when DeleteByKey was called; then every entry of the fingerprint is
\* live again afterwards.
C6_RestoreUndoesDeleteOfLive ==
    [][(/\ RestoreAfterDelete
        /\ \A e \in Entries(last.kv) : Desc(e, last.kv) \notin last.pre)
       =>
        /\ last'.n = Len(last.deletedDests)
        /\ DeletedSet' = last.pre
        /\ \A e \in Entries(last.kv) : ~heap'[Desc(e, last.kv)].Deleted
    ]_vars

\* C6 witness: a RestoreByKey that followed a DeleteByKey has restored a
\* record and every record is live
C6_Witness ==
    /\ last.op = "RestoreByKey"
    /\ last.prevOp = "DeleteByKey"
    /\ last.n >= 1
    /\ DeletedSet = {}

-----------------------------------------------------------------------------
(* FindByKey  (SpecFind) *)

\* C2: a FindByKey call that has started eventually returns, with every shard
\* lock released.
C2_FindByKeyReturns ==
    (fc.pc # "idle") ~> (fc.pc = "idle" /\ \A n \in Shards : mu[n] = "free")

\* the payloads of the live non-unique entries of shard n from ordinal i on
RECURSIVE LiveInShard(_, _, _)
LiveInShard(n, kv, i) ==
    IF i > OrdLimit THEN <<>>
    ELSE LET k == ToString(i) \o kv
             rest == LiveInShard(n, kv, i + 1)
         IN  IF k \in DOMAIN Items[n] /\ ~heap[Items[n][k]].Deleted
             THEN <<SubSeq(file[n], heap[Items[n][k]].Start + 1,
                           heap[Items[n][k]].Start + heap[Items[n][k]].Length)>>
                  \o rest
             ELSE rest

\* ... of the shards from n on, in ascending shard index
RECURSIVE LiveFrom(_, _)
LiveFrom(n, kv) ==
    IF n >= shardCount THEN <<>>
    ELSE LiveInShard(n, kv, 0) \o LiveFrom(n + 1, kv)

\* C3: FindByKey(field, data, N), N >= 1, returns the payloads of the live
\* entries of the fingerprint, shard by shard and by ascending ordinal, cut
\* to the first N.
C3_FindByKeyReturnsLive ==
    (fc.pc # "idle") ~>
        (/\ fc.pc = "idle"
         /\ last.op = "FindByKey"
         /\ (last.err = "nil" =>
                LET live == LiveFrom(0, last.kv)
                IN  last.results = SubSeq(live, 1, Min(last.limit, Len(live)))))

-----------------------------------------------------------------------------
(* Round-robin routing  (SpecRoute) *)

\* C7: with the counter at c0 and no SetCounterIndex since, the i-th Set to
\* pass the counter mutex gets shard (c0 + i) mod shard_count, also when Sets
\* run concurrently; the counter and the shard index stay in [0, shard_count).
C7_RoundRobin ==
    /\ ~panicked
    /\ counterMx = "free" => counter \in Shards
    /\ \A t \in Threads : tpc[t] = "body" => tloc[t].shard \in Shards
    /\ \A i \in 1 .. Len(route.given) :
          route.given[i] = (route.c0 + i) % shardCount

\* C8: SetCounterIndex(v) fails and leaves the counter alone when
\* v >= shard_count; otherwise it succeeds and the next Set lands on shard
\* (v + 1) mod shard_count.
C8_SetCounterIndex ==
    /\ last.op = "SetCounterIndex" =>
          IF last.value >= shardCount
          THEN last.err = "invalid value" /\ last.after = last.before
          ELSE last.err = "nil" /\ last.after = last.value
    /\ ~panicked
    /\ Len(route.given) >= 1 => route.given[1] = (route.c0 + 1) % shardCount

-----------------------------------------------------------------------------
(* Identity entries and shared descriptors *)

\* the identity keys of shard s that point to descriptor a
IdKeysOf(s, a) == {k \in KeysOf(s, a) : \E i \in 1 .. MaxSets : k = IdKey(i)}

\* the descriptors some entry of shard s points to
Referenced(s) == {Items[s][k] : k \in DOMAIN Items[s]}

\* C11 as stated: every descriptor referenced by some entry of a shard's index
\* is referenced by exactly one "id:<id>" entry of that shard.
C11_OneIdentityEntry ==
    \A s \in Shards : \A a \in Referenced(s) : Cardinality(IdKeysOf(s, a)) = 1

\* C11 amended: a descriptor installed by a Set that returned without error is
\* referenced by exactly one identity entry, the one of its own id, in the
\* shard of the Set; a descriptor left behind by a Set that failed on a
\* duplicate unique key is referenced only by the entries that precede the
\* colliding descriptor and by no identity entry.
C11_IdentityOfSuccessfulSet ==
    \A s \in Shards : \A a \in Referenced(s) :
        IF a \in DOMAIN written
        THEN written[a].shard = s /\ IdKeysOf(s, a) = {IdKey(a)}
        ELSE IdKeysOf(s, a) = {}

\* C11 witness: a shard holds the record of a successful Set, with its
\* identity entry, next to a descriptor that a failed Set left without one
C11_Witness ==
    \E s \in Shards : \E a, b \in Referenced(s) :
        /\ a \in DOMAIN written
        /\ IdKeysOf(s, a) = {IdKey(a)}
        /\ b \notin DOMAIN written
        /\ KeysOf(s, b) # {}

\* the descriptors whose deleted flag a step changes
Flipped == {a \in DOMAIN heap : heap'[a].Deleted # heap[a].Deleted}

\* the index keys of the fingerprint of TagRed
TagRedKeys == {OrdKey(i, FullKey(TagRed)) : i \in 0 .. OrdLimit}

\* descriptor a is referenced by a non-unique entry of the fingerprint of TagRed
HasTagRedEntry(a) ==
    \E s \in Shards : \E k \in DOMAIN Items[s] : k \in TagRedKeys /\ Items[s][k] = a

\* C12: the entries one Set installed reference one descriptor, so the deleted
\* flag seen through any two keys of a record is the same; a delete or restore
\* through a unique or identity key sets the flag of that key's record, seen
\* through every key of the record, and of no other record; DeleteByKey and
\* RestoreByKey set the flag only of records that have an entry of the
\* fingerprint.  Every call of SpecFlags records itself in last, so last'.op
\* names the call that made the step.
C12_SharedDescriptor ==
    /\ [](\A n \in DOMAIN written : \A k1, k2 \in written[n].keys :
             /\ k1 \in DOMAIN Items[written[n].shard]
             /\ Items[written[n].shard][k1] = Items[written[n].shard][k2]
             /\ heap[Items[written[n].shard][k1]].Deleted
                   = heap[Items[written[n].shard][k2]].Deleted)
    /\ [][/\ last'.op \in {"DeleteByUniqueKey", "RestoreByUniqueKey"} =>
                IF last'.err = "nil"
                THEN LET a == Items[last'.shard][last'.key]
                     IN  /\ Flipped \subseteq {a}
                         /\ \A k \in KeysOf(last'.shard, a) :
                               heap'[Items'[last'.shard][k]].Deleted
                                  = (last'.op = "DeleteByUniqueKey")
                ELSE Flipped = {}
          /\ last'.op = "DeleteByKey" =>
                /\ last'.kv = FullKey(TagRed)
                /\ \A a \in Flipped : HasTagRedEntry(a) /\ heap'[a].Deleted
          /\ last'.op = "RestoreByKey" =>
                /\ last'.kv = FullKey(TagRed)
                /\ \A a \in Flipped : HasTagRedEntry(a) /\ ~heap'[a].Deleted
          /\ last'.op \in {"Set", "SetCounterIndex"} => Flipped = {}
       ]_vars

\* C12 witness: a record with an identity, a unique and a non-unique key is
\* marked deleted next to a live record of the same shard
C12_Witness ==
    \E n \in DOMAIN written : \E m \in DOMAIN written :
        /\ m # n
        /\ written[m].shard = written[n].shard
        /\ Cardinality(written[n].keys) = 3
        /\ heap[n].Deleted
        /\ ~heap[m].Deleted
        /\ last.op \in {"DeleteByUniqueKey", "DeleteByKey"}

-----------------------------------------------------------------------------
(* Delete and restore through a unique key  (Spec) *)

\* C13: a successful DeleteByUniqueKey changes nothing but the deleted flag of
\* the key's descriptor; the RestoreByUniqueKey of the same key that follows
\* it succeeds and clears that flag, so index, capacity map, file and every
\* descriptor's start and length are as before the delete, the descriptor is
\* live, and a read through the key gives the same bytes as before; a
\* RestoreByUniqueKey of a key that is not in the index returns the
\* already-evicted error and changes nothing.
C13_DeleteRestoreRoundTrip ==
    /\ []((last.op = "RestoreByUniqueKey" /\ last.undoes) =>
             /\ last.err = "nil"
             /\ ~heap[Items[last.shard][last.key]].Deleted)
    /\ [][/\ (last'.op = "DeleteByUniqueKey" /\ last'.err = "nil") =>
                /\ last'.key \in DOMAIN Items[last'.shard]
                /\ <<Items', capacity', file'>> = <<Items, capacity, file>>
                /\ heap' = [heap EXCEPT ![Items[last'.shard][last'.key]].Deleted = TRUE]
          /\ (last'.op = "RestoreByUniqueKey" /\ last'.undoes) =>
                /\ <<Items', capacity', file'>> = <<Items, capacity, file>>
                /\ heap' = [heap EXCEPT ![Items[last.shard][last.key]].Deleted = FALSE]
                /\ ReadAtOffset(file'[last.shard], heap'[Items'[last.shard][last.key]], TRUE)
                      = ReadAtOffset(file[last.shard], heap[Items[last.shard][last.key]], TRUE)
          /\ (last'.op = "RestoreByUniqueKey" /\ last'.key \notin DOMAIN Items[last'.shard]) =>
                /\ last'.err = "evicted"
                /\ <<Items', capacity', file', heap'>> = <<Items, capacity, file, heap>>
       ]_vars

\* C13 witness: the unique e-mail key of a record was deleted and restored,
\* and the record is live
C13_Witness ==
    /\ last.op = "RestoreByUniqueKey"
    /\ last.undoes
    /\ last.key = FullKey(UniqueEmail)
    /\ last.err = "nil"
    /\ ~heap[Items[last.shard][last.key]].Deleted

-----------------------------------------------------------------------------
(* Count  (SpecTotal) *)

\* the index entries of all shards, tombstoned ones included
AllEntries == UNION {{<<n, k>> : k \in DOMAIN Items[n]} : n \in Shards}

\* C14: a Count that runs alone returns the number of index entries of all
\* shards, tombstoned entries included; a successful Set with u unique and v
\* non-unique descriptors raises that number by u + v + 1; deletes and
\* restores leave it unchanged; IsEmpty is true exactly when it is 0.
C14_CountIsTotal ==
    /\ [](/\ last.op = "Count" => last.count = Cardinality(AllEntries)
          /\ last.op = "IsEmpty" => (last.result <=> Cardinality(AllEntries) = 0)
          /\ (last.op = "Count" /\ nextId = 2 /\ 1 \in DOMAIN written
                /\ written[1].keys = {IdKey(1), FullKey(UniqueEmail)})
                => last.count = 2)
    /\ [][/\ (last'.op = "Set" /\ last'.err = "nil" /\ nextId' = nextId + 1) =>
                Cardinality(AllEntries') =
                    Cardinality(AllEntries) + Len(last'.indexData) + 1
          /\ last'.op \in {"DeleteByUniqueKey", "RestoreByUniqueKey",
                           "DeleteByKey", "RestoreByKey", "Count", "IsEmpty"} =>
                AllEntries' = AllEntries
       ]_vars

\* C14 witness: after one Set with one unique descriptor on the empty map and
\* the delete of its record, a Count returned 2
C14_Witness ==
    /\ last.op = "Count"
    /\ last.count = 2
    /\ nextId = 2
    /\ DOMAIN written = {1}
    /\ written[1].keys = {IdKey(1), FullKey(UniqueEmail)}
    /\ heap[1].Deleted

-----------------------------------------------------------------------------
(* Count under concurrency  (SpecCount) *)

\* C15: when a thread's Count returns c2 and the same thread's earlier Count
\* returned c1, then c1 <= c2, whatever Sets, deletes and restores ran in
\* between and during the two calls.
C15_CountMonotonic ==
    (last.op = "Count" /\ "prev" \in DOMAIN last /\ last.prev >= 0)
        => last.prev <= last.count

\* C15 witness: a thread's Count returned more than its previous Count, which
\* had already counted entries; a record is tombstoned
C15_Witness ==
    /\ last.op = "Count"
    /\ "prev" \in DOMAIN last
    /\ last.prev >= 1
    /\ last.prev < last.count
    /\ DeletedSet # {}

-----------------------------------------------------------------------------
(* C16 *)

\* the bytes of file f in the range of descriptor d
BlockAt(f, d) == SubSeq(f, d.Start + 1, d.Start + d.Length)

\* C16: in every state, with Sets, Flushes and reads interleaved on one shard,
\* every descriptor in a shard's index denotes a range inside the shard file
\* that holds exactly the block of the Set that made the descriptor; the
\* ranges of different descriptors of a shard are disjoint; and a read that
\* finds an entry while the handle is open returns that complete block.
C16_NoTornReads ==
    /\ \A s \in Shards : \A k \in DOMAIN Items[s] :
          LET a == Items[s][k]
              d == heap[a]
          IN  /\ 0 <= d.Start
              /\ d.Start + d.Length <= Len(file[s])
              /\ BlockAt(file[s], d) = EncodeGob(a, TornPayload(a))
    /\ \A s \in Shards : \A k1, k2 \in DOMAIN Items[s] :
          LET d1 == heap[Items[s][k1]]
              d2 == heap[Items[s][k2]]
          IN  Items[s][k1] # Items[s][k2] =>
                 \/ d1.Start + d1.Length <= d2.Start
                 \/ d2.Start + d2.Length <= d1.Start
    /\ (last.op = "FindByUniqueKey" /\ last.key \in DOMAIN Items[last.shard]) =>
          IF last.ioOk
          THEN /\ last.err = "nil"
               /\ last.data = EncodeGob(Items[last.shard][last.key],
                                        TornPayload(Items[last.shard][last.key]))
          ELSE last.err = "io"

\* two Sets have put their blocks into the same shard, the second behind the
\* first, a Flush has gone over the shard, and a read has returned the second
\* block
C16_Witness ==
    /\ 1 \in DOMAIN heap /\ 2 \in DOMAIN heap
    /\ IdKey(1) \in DOMAIN Items[TornShard] /\ IdKey(2) \in DOMAIN Items[TornShard]
    /\ heap[2].Start >= heap[1].Start + heap[1].Length
    /\ tpc["t2"] = "flush" /\ tloc["t2"].i > TornShard
    /\ last.op = "FindByUniqueKey" /\ last.err = "nil"
    /\ last.data = EncodeGob(2, TornPayload(2))

-----------------------------------------------------------------------------
(* C17 *)

RECURSIVE SumSeq(_)
\* the sum of a sequence of numbers
SumSeq(q) == IF q = <<>> THEN 0 ELSE Head(q) + SumSeq(Tail(q))

\* C17: OptimizeShards calls Optimize on the shards in ascending order; when
\* every shard succeeds it returns the sum of the bytes the shards' Optimize
\* calls reclaimed; at the first failing shard it returns the error and calls
\* Optimize on no later shard.
C17_OptimizeSum ==
    last.op = "OptimizeShards" =>
       /\ \A i \in DOMAIN last.called : last.called[i] = i - 1
       /\ last.err = "nil" =>
             /\ Len(last.called) = shardCount
             /\ last.n = SumSeq(last.reclaimed)
       /\ last.err # "nil" => Len(last.called) = Len(last.reclaimed) + 1

\* OptimizeShards has succeeded where two shards reclaimed bytes each
C17_Witness ==
    /\ last.op = "OptimizeShards"
    /\ last.err = "nil"
    /\ Cardinality({i \in DOMAIN last.reclaimed : last.reclaimed[i] > 0}) >= 2

-----------------------------------------------------------------------------
(* C18 *)

\* the step in which a Sync writes map.index and returns nil
SyncWritten == \E t \in Threads : /\ tpc[t] = "sync"
                                  /\ tloc[t].i >= shardCount
                                  /\ tpc'[t] = "idle"
                                  /\ last'.err = "nil"

\* the step in which a Sync returns the error of a shard's sync
SyncFailedAtShard == \E t \in Threads : /\ tpc[t] = "sync"
                                        /\ tloc[t].i < shardCount
                                        /\ tpc'[t] = "idle"

\* C18: a successful Sync writes to map.index the counter of that moment, which
\* is the counter a session has after the Sets routed so far (never the value
\* inside a running GetNextShard); an engine opened again starts with the
\* counter map.index holds, so that after Sync and reopen the counter is the one
\* the session had, and the Sets after the reopen go to the shards that follow
\* it in the round-robin; a Sync in which a shard's sync fails returns the
\* error and leaves map.index as it was.
C18_RoundRobinPersistence ==
    /\ [](\A i \in DOMAIN route.given :
             route.given[i] = (route.c0 + i) % shardCount)
    /\ [][/\ SyncWritten =>
                /\ mapIndex' = IndexFile(counter)
                /\ counter = (route.c0 + Len(route.given)) % shardCount
                /\ ParseUint(FirstLine(mapIndex')) = counter
          /\ SyncFailedAtShard =>
                /\ last'.op = "Sync" /\ last'.err = "io"
                /\ mapIndex' = mapIndex
          /\ (last'.op = "Open" /\ last.op # "Open") =>
                /\ mapIndex # <<>> => IndexFile(counter') = mapIndex
                /\ (last.op = "Sync" /\ last.err = "nil") => counter' = counter
         ]_vars

\* after a Set and a successful Sync the engine has been opened again, and the
\* next Set has gone to the shard after the one of the Set before the reopen
C18_Witness ==
    /\ last.op = "Set" /\ last.err = "nil" /\ last.id = 2
    /\ mapIndex = IndexFile(1)
    /\ route = [c0 |-> 1, given |-> <<2>>]
    /\ counter = 2

-----------------------------------------------------------------------------
(* C19 *)

\* the tuples of the entries a successful Set made
SetTuples(i) == {[Key |-> k, Val |-> i, shard |-> written[i].shard] : k \in written[i].keys}

\* the entries shard n held when the Sets up to number j had returned
StateAt(n, j) ==
    UNION {SetTuples(i) : i \in {x \in DOMAIN written : x <= j /\ written[x].shard = n}}

\* the tuples of shard n the call has taken so far, wherever they are
TakenOf(n) ==
    {t \in iter.chans[n].buf \cup iter.out.buf \cup iter.got : t.shard = n}

\* the tuples of shard n the consumer has received
DeliveredOf(n) == {t \in iter.got : t.shard = n}

\* the output channel is closed and the consumer has taken everything from it
IterFinished == iter.pc = "closed" /\ iter.out.buf = {}

\* C19: for each Iter / IterBuffered call and each shard, the tuples taken
\* while the shard's lock is held are entries the shard holds at that time, the
\* channel has the size of the shard's index at that time, and once the
\* shard's channel is closed the tuples are exactly the entries the shard held
\* at one instant of the call (as many as the channel was sized for); no tuple
\* is received twice; the output channel is closed only after every tuple has
\* been passed on, so that a finished call has delivered each shard's
\* snapshot; and a call that has started is eventually finished.
C19_IterSnapshot ==
    /\ [](iter.pc # "idle" =>
            /\ \A n \in Shards :
                  /\ iter.snap[n] = "push" =>
                        /\ iter.chans[n].cap = Cardinality(DOMAIN Items[n])
                        /\ TakenOf(n) \subseteq TuplesOf(Items[n], n)
                  /\ iter.snap[n] = "done" =>
                        /\ Cardinality(TakenOf(n)) = iter.chans[n].cap
                        /\ \E j \in (iter.from - 1) .. (nextId - 1) :
                              TakenOf(n) = StateAt(n, j)
            /\ iter.received = Cardinality(iter.got)
            /\ iter.out.closed =>
                  \A n \in Shards : iter.snap[n] = "done" /\ iter.chans[n].buf = {}
            /\ IterFinished =>
                  \A n \in Shards : \E j \in (iter.from - 1) .. (nextId - 1) :
                     DeliveredOf(n) = StateAt(n, j))
    /\ (iter.pc # "idle") ~> IterFinished

\* a call has finished that delivered a shard's entries as they were before a
\* later Set added entries to the same shard
C19_Witness ==
    /\ IterFinished
    /\ \E n \in Shards : /\ DeliveredOf(n) # {}
                         /\ DeliveredOf(n) # TuplesOf(Items[n], n)
                         /\ DeliveredOf(n) \subseteq TuplesOf(Items[n], n)

-----------------------------------------------------------------------------
(* C20 *)

\* C20: for every limit N >= 0, FindByKey returns at most N payloads,
\* DeleteByKey marks at most N entries deleted and returns at most N keys, and
\* RestoreByKey returns a number that is at most N.
C20_LimitBound ==
    /\ last.op = "FindByKey" => Len(last.results) <= last.limit
    /\ last.op = "DeleteByKey" =>
          /\ Len(last.deletedDests) <= last.limit
          /\ Cardinality(DeletedSet \ last.pre) <= last.limit
    /\ last.op = "RestoreByKey" => last.n <= last.limit

-----------------------------------------------------------------------------
(* C21 *)

\* the operations that can hold a shard lock across steps: a Set or a Flush of
\* a thread, the FindByKey call, and the Iter / IterBuffered call with the
\* goroutines of its snapshot
LockHolders == Threads \cup {"FindByKey", "snapshot"}

\* the shards whose lock holder h has
HeldBy(h) == {n \in Shards : mu[n] = h}

\* the snapshot has returned its channels to Iter / IterBuffered, which
\* returns the output channel without a further wait
IterReturned == iter.pc \in {"fanIn", "closed"}

\* C21: no operation holds more than one shard lock at a time; the iterator
\* takes the shard locks one after the other in ascending shard index; an
\* operation that has returned holds no shard lock; and every call that has
\* started comes to its end with every shard lock free.
C21_LockDiscipline ==
    /\ [](/\ \A h \in LockHolders : Cardinality(HeldBy(h)) <= 1
          /\ iter.pc # "idle" =>
                \A n, m \in Shards :
                   (n < m /\ iter.snap[m] # "start") => iter.snap[n] = "done"
          /\ \A t \in Threads : tpc[t] = "idle" => HeldBy(t) = {}
          /\ fc.pc = "idle" => HeldBy("FindByKey") = {}
          /\ IterReturned => HeldBy("snapshot") = {})
    /\ (iter.pc # "idle") ~> (IterFinished /\ \A n \in Shards : mu[n] = "free")

-----------------------------------------------------------------------------
(* C22 *)

\* the ordinals of fingerprint f that the index items holds
OrdinalsOf(items, f) == {i \in 0 .. OrdLimit : OrdKey(i, f) \in DOMAIN items}

\* the ordinals of fingerprint f that shard n's index holds
OrdinalsIn(n, f) == OrdinalsOf(Items[n], f)

\* the highest of a non-empty set of numbers
Highest(S) == CHOOSE i \in S : \A j \in S : j <= i

\* C22: in every state, for every shard and every fingerprint with a
\* non-unique entry in the shard, capacity[f] is the highest ordinal of the
\* fingerprint in the shard's index; a Set on a non-unique descriptor inserts
\* at the smallest unused ordinal and sets capacity[f] to it; DeleteByKey and
\* RestoreByKey leave every shard's capacity map and key set unchanged.
C22_CapacityAccuracy ==
    /\ [](\A n \in Shards :
             OrdinalsIn(n, "tag:red") # {} =>
                /\ "tag:red" \in DOMAIN capacity[n]
                /\ capacity[n]["tag:red"] = Highest(OrdinalsIn(n, "tag:red")))
    /\ [][/\ (last'.op = "Set" /\ nextId' # nextId /\ last'.shard \in Shards
                 /\ Items'[last'.shard] # Items[last'.shard]) =>
                LET n == last'.shard
                    new == OrdinalsOf(Items'[n], "tag:red") \ OrdinalsIn(n, "tag:red")
                    free == (0 .. OrdLimit) \ OrdinalsIn(n, "tag:red")
                IN  new # {} =>
                       /\ \A i \in new : \A j \in free : j < i => j \in new
                       /\ capacity'[n]["tag:red"] = Highest(new)
          /\ last'.op \in {"DeleteByKey", "RestoreByKey"} =>
                /\ capacity' = capacity
                /\ \A n \in Shards : DOMAIN Items'[n] = DOMAIN Items[n]
         ]_vars

====
